---- MODULE Spec2Model ----
(***************************************************************************)
(* CreditMLService (src/app/python_ml_service.py): a wrapper around a      *)
(* joblib-serialized classifier.  The model covers construction and        *)
(* load_model, validate_features, predict_credit_score (step by step, so   *)
(* that the order of validation and classifier invocations is visible),    *)
(* convert_category_to_score, batch_predict and get_model_info.            *)
(*                                                                         *)
(* Numbers.  Feature values are Python floats; a float is modelled as a    *)
(* record [nan, v]: NaN, or the integer v.  Confidences and probabilities  *)
(* are modelled in hundredths (85 stands for 0.85), which is exact for     *)
(* (1 - confidence) * 50 on that grid.                                     *)
(*                                                                         *)
(* None is the empty tuple; a field that may be None holds None or         *)
(* Some(v) = <<v>>.                                                        *)
(***************************************************************************)
EXTENDS Integers, Sequences, FiniteSets, TLC

VARIABLES
    phase,               \* "new" | "failed" | "ready": CreditMLService() not yet called / raised / returned
    disk,                \* what self.model_path resolves to on the filesystem
    model,               \* self.model
    feature_names,       \* self.feature_names
    credit_categories,   \* self.credit_categories
    op,                  \* the method whose call completed last ("none" before any, and during a call)
    arg,                 \* the argument of the current or last top-level call
    ret,                 \* the value the last completed call returned
    raised,              \* the exception the last completed call raised to its caller, or None
    pc,                  \* position inside predict_credit_score
    features,            \* predict_credit_score: parameter features
    prediction,          \* predict_credit_score: local prediction
    confidence,          \* predict_credit_score: local confidence
    proba,               \* predict_credit_score: local proba
    probabilities,       \* predict_credit_score: local probabilities
    feature_importance,  \* predict_credit_score: local feature_importance
    calls,               \* classifier members invoked by the current predict_credit_score call
    diag,                \* "Could not get ..." diagnostics printed by the current call
    bpc,                 \* position inside batch_predict
    features_list,       \* batch_predict: parameter features_list
    it,                  \* batch_predict: how many elements the for loop has taken
    results              \* batch_predict: local results

vars == <<phase, disk, model, feature_names, credit_categories, op, arg, ret, raised,
          pc, features, prediction, confidence, proba, probabilities,
          feature_importance, calls, diag, bpc, features_list, it, results>>

service == <<phase, disk, model, feature_names, credit_categories>>
frame == <<pc, features, prediction, confidence, proba, probabilities,
           feature_importance, calls, diag>>
batch == <<bpc, features_list, it, results>>

-----------------------------------------------------------------------------
(* Values *)

None == <<>>
Some(v) == <<v>>
Val(o) == o[1]

\* Python floats: NaN, or a number.
NaN == [nan |-> TRUE, v |-> 0]
F(n) == [nan |-> FALSE, v |-> n]

\* x < n, x >= n and x == n on floats: every comparison with NaN is False.
Lt(x, n) == ~x.nan /\ x.v < n
Ge(x, n) == ~x.nan /\ x.v >= n
Eq(x, n) == ~x.nan /\ x.v = n

\* x in lst, for a list of integers.
InList(x, lst) == \E i \in 1..Len(lst) : Eq(x, lst[i])

\* An exception object: its type and str(e).
Exc(type, msg) == [type |-> type, msg |-> msg]

\* __init__, lines 26-39.
FeatureNames ==
    << "Outstanding_Debt", "Credit_Mix", "Credit_History_Age", "Monthly_Balance",
       "Payment_Behaviour", "Annual_Income", "Num_of_Delayed_Payment" >>

CreditCategories == (0 :> "Good" @@ 1 :> "Poor" @@ 2 :> "Standard")

-----------------------------------------------------------------------------
(* validate_features, lines 63-93 *)

validate_features(fs) ==
    IF Len(fs) # Len(feature_names) THEN FALSE
    ELSE LET outstanding_debt   == fs[1]
             credit_mix         == fs[2]
             credit_history_age == fs[3]
             annual_income      == fs[6]
             delayed_payments   == fs[7]
         IN  IF Lt(outstanding_debt, 0) THEN FALSE
             ELSE IF ~InList(credit_mix, <<0, 1, 2>>) THEN FALSE
             ELSE IF Lt(credit_history_age, 0) THEN FALSE
             ELSE IF Lt(annual_income, 0) THEN FALSE
             ELSE IF Lt(delayed_payments, 0) THEN FALSE
             ELSE TRUE

-----------------------------------------------------------------------------
(* Program constants *)

\* 1.0 in hundredths: the 1 of "(1 - confidence)", line 185.
One == 100
\* line 185: "* 50"
VarianceFactor == 50
\* line 121: confidence = 0.85
DefaultConfidence == 85
\* line 189: max(300, min(850, final_score))
ScoreFloor == 300
ScoreCeiling == 850
\* line 182: base_scores.get(category, 650)
DefaultBase == 650

\* convert_category_to_score, lines 176-180.
base_scores == (0 :> 750 @@ 1 :> 580 @@ 2 :> 650)

-----------------------------------------------------------------------------
(* Bounds and input sets *)

\* The longest feature vector tried.
MaxLen == 8
\* The largest class id the classifier returns (0..2 are in credit_categories).
MaxCategory == 3
\* How far below 0.00 and above 1.00 a confidence passed to
\* convert_category_to_score ranges, in hundredths.
MaxOffScale == 120
\* The longest list given to batch_predict.
MaxBatch == 2

\* The float values a feature slot is given.
Vals == {NaN} \cup {F(n) : n \in -1..3}

\* Every vector of the schema's length over Vals, and vectors of every other
\* length up to MaxLen.
AllVectors ==
    [1..Len(FeatureNames) -> Vals]
        \cup UNION {[1..n -> {F(0), F(-1)}] : n \in (0..MaxLen) \ {Len(FeatureNames)}}

\* main, line 263: the first canned profile.
GoodProfile == <<F(5000), F(1), F(36), F(2500), F(85), F(60000), F(2)>>

\* The feature vectors given to predict_credit_score and batch_predict.
SampleInputs ==
    { GoodProfile,
      [GoodProfile EXCEPT ![4] = F(-1), ![5] = NaN],   \* unconstrained slots
      [GoodProfile EXCEPT ![1] = NaN],                 \* NaN is not < 0
      [GoodProfile EXCEPT ![1] = F(-1)],               \* negative debt
      [GoodProfile EXCEPT ![2] = F(3)],                \* credit mix out of {0,1,2}
      [GoodProfile EXCEPT ![7] = F(-1)],               \* negative delayed payments
      SubSeq(GoodProfile, 1, 5),                       \* too short
      [i \in 1..MaxLen |-> F(0)] }                     \* too long

BatchInputs ==
    { GoodProfile,
      [GoodProfile EXCEPT ![2] = F(0)],
      [GoodProfile EXCEPT ![1] = F(-1)],
      SubSeq(GoodProfile, 1, 5) }

-----------------------------------------------------------------------------
(* The filesystem and joblib *)

\* A deserialized object: its type name and the attributes hasattr() finds.
Obj(type, attrs) == [type |-> type, attrs |-> attrs]

RandomForest ==
    Obj("RandomForestClassifier",
        {"predict", "predict_proba", "feature_importances_",
         "n_estimators", "max_depth", "random_state"})
LogisticRegression ==
    Obj("LogisticRegression", {"predict", "predict_proba", "random_state"})
DecisionTreeRegressor ==
    Obj("DecisionTreeRegressor",
        {"predict", "feature_importances_", "max_depth", "random_state"})
LinearSVC == Obj("LinearSVC", {"predict", "random_state"})

\* What a model file can deserialize to: an estimator, or a pickled None.
Artifacts == {RandomForest, LogisticRegression, DecisionTreeRegressor, LinearSVC, None}

\* What self.model_path resolves to: nothing, a directory, a file joblib cannot
\* read, or a file holding a pickled object.
Missing == [kind |-> "missing", content |-> None]
Directory == [kind |-> "directory", content |-> None]
Corrupt == [kind |-> "corrupt", content |-> None]
File(obj) == [kind |-> "file", content |-> obj]

DiskStates == {Missing, Directory, Corrupt} \cup {File(a) : a \in Artifacts}

\* Estimators whose predict_proba the batch specification drives.
BatchDiskStates == {Missing, Corrupt, File(RandomForest), File(LogisticRegression), File(None)}

hasattr(obj, name) == obj # None /\ name \in obj.attrs

\* Path.exists(), line 45.
exists(d) == d.kind # "missing"

\* An outcome of a call that may raise: a value, or an exception.
Ok(v) == [ok |-> TRUE, v |-> v]
Fault(e) == [ok |-> FALSE, exc |-> e]

\* joblib.load(self.model_path), line 47.
joblib_load(d) ==
    CASE d.kind = "file"      -> Ok(d.content)
      [] d.kind = "directory" -> Fault(Exc("IsADirectoryError", "Is a directory"))
      [] d.kind = "corrupt"   -> Fault(Exc("UnpicklingError", "invalid load key"))
      [] OTHER                -> Fault(Exc("FileNotFoundError", "No such file or directory"))

\* load_model that swallows the failure after printing it.
load_model_swallow(d, old) ==
    IF exists(d)
    THEN LET r == joblib_load(d)
         IN  IF r.ok THEN [model |-> r.v, raised |-> None]
             ELSE [model |-> old, raised |-> None]
    ELSE [model |-> old, raised |-> None]

\* load_model that resets self.model before it reads the file.
load_model_clears(d, old) ==
    IF exists(d)
    THEN LET r == joblib_load(d)
         IN  IF r.ok THEN [model |-> r.v, raised |-> None]
             ELSE [model |-> None, raised |-> Some(r.exc)]
    ELSE [model |-> None,
          raised |-> Some(Exc("FileNotFoundError", "Model file not found"))]

\* load_model, lines 42-61, on a filesystem d and the current self.model:
\* the new self.model and the exception raised to the caller.
load_model(d, old) ==
    IF exists(d)
    THEN LET r == joblib_load(d)
         IN  IF r.ok THEN [model |-> r.v, raised |-> None]
             ELSE [model |-> old, raised |-> Some(r.exc)]          \* line 61: raise
    ELSE [model |-> old,
          raised |-> Some(Exc("FileNotFoundError", "Model file not found"))]

-----------------------------------------------------------------------------
(* convert_category_to_score, lines 174-189 *)

\* int(x) for x = n / d, d > 0: truncation towards zero.
Trunc(n, d) == IF n >= 0 THEN n \div d ELSE -((-n) \div d)

Min2(a, b) == IF a <= b THEN a ELSE b
Max2(a, b) == IF a >= b THEN a ELSE b

\* final_score returned as it is.
NoClamp(final_score) == final_score

\* line 189
Clamp(final_score) == Max2(ScoreFloor, Min2(ScoreCeiling, final_score))

\* randint with an inclusive upper end.
RandIntInclusive(low, high) ==
    IF low >= high THEN {Fault(Exc("ValueError", "low >= high"))}
    ELSE {Ok(n) : n \in low..high}

\* np.random.randint(low, high): any integer of [low, high), ValueError when
\* the range is empty.
RandInt(low, high) ==
    IF low >= high THEN {Fault(Exc("ValueError", "low >= high"))}
    ELSE {Ok(n) : n \in low..(high - 1)}

\* line 185, confidence in hundredths
Variance(conf) == Trunc((One - conf) * VarianceFactor, One)

\* The outcomes of convert_category_to_score(category, confidence).
convert_category_to_score(category, conf) ==
    LET base_score == IF category \in DOMAIN base_scores
                      THEN base_scores[category] ELSE DefaultBase
        variance == Variance(conf)
    IN  { IF adjustment.ok THEN Ok(Clamp(base_score + adjustment.v)) ELSE adjustment :
            adjustment \in RandInt(-variance, variance + 1) }

\* The locals of predict_credit_score when no call has run.
IdleFrame ==
    /\ pc = "idle"
    /\ features = None
    /\ prediction = None
    /\ confidence = None
    /\ proba = None
    /\ probabilities = None
    /\ feature_importance = None
    /\ calls = <<>>
    /\ diag = {}

IdleBatch ==
    /\ bpc = "idle"
    /\ features_list = <<>>
    /\ it = 0
    /\ results = <<>>

-----------------------------------------------------------------------------
(* The classifier: what its members may do when invoked *)

ClassifierFault(member) == Fault(Exc("ValueError", member))

\* self.model.predict(features_array)[0]: a class id, or a fault.
PredictOutcomes == {ClassifierFault("predict")} \cup {Ok(c) : c \in 0..MaxCategory}

\* Rows predict_proba returns, in hundredths, of one to four classes; rows
\* that are no distribution included.
ProbaRows ==
    { <<100, 0, 0>>, <<5, 90, 5>>, <<34, 33, 33>>, <<70, 30>>, <<100>>,
      <<25, 25, 25, 25>>, <<101, 0, 0>>, <<150, 0, 0>>, <<-104, -110, -120>> }

\* self.model.predict_proba(features_array)[0]
ProbaOutcomes == {ClassifierFault("predict_proba")} \cup {Ok(row) : row \in ProbaRows}

\* self.model.feature_importances_: one weight per feature, or more.
ImportanceOutcomes ==
    { ClassifierFault("feature_importances_"),
      Ok(<<30, 10, 20, 5, 5, 25, 5>>),
      Ok([i \in 1..MaxLen |-> 1]) }

\* A classifier that never faults and is certain of its class.
BatchPredictOutcomes == {ClassifierFault("predict")} \cup {Ok(c) : c \in 0..MaxCategory}
BatchProbaOutcomes == {Ok(<<100, 0, 0>>), Ok(<<0, 0, 100>>)}
BatchImportanceOutcomes == {Ok(<<30, 10, 20, 5, 5, 25, 5>>)}

-----------------------------------------------------------------------------
(* predict_credit_score, lines 95-172: values *)

\* confidence taken from the first class instead of the largest.
SeqFirst(row) == row[1]

\* line 131: max(proba)
SeqMax(row) == CHOOSE m \in {row[i] : i \in 1..Len(row)} :
                   \A i \in 1..Len(row) : row[i] <= m

\* lines 127-130: {self.credit_categories[i]: float(prob) for i, prob in enumerate(proba)};
\* KeyError when proba has more entries than credit_categories.
ProbabilitiesOf(row) ==
    IF \A i \in 1..Len(row) : (i - 1) \in DOMAIN credit_categories
    THEN Ok([l \in {credit_categories[i - 1] : i \in 1..Len(row)} |->
                row[CHOOSE i \in 1..Len(row) : credit_categories[i - 1] = l]])
    ELSE Fault(Exc("KeyError", "credit_categories"))

\* lines 140-143: {self.feature_names[i]: float(imp) for i, imp in enumerate(importance)};
\* IndexError when importance has more entries than feature_names.
ImportanceOf(importance) ==
    IF Len(importance) <= Len(feature_names)
    THEN Ok([n \in {feature_names[i] : i \in 1..Len(importance)} |->
                importance[CHOOSE i \in 1..Len(importance) : feature_names[i] = n]])
    ELSE Fault(Exc("IndexError", "list index out of range"))

\* line 159: dict(zip(self.feature_names, features))
FeaturesUsed(fs) ==
    LET n == Min2(Len(feature_names), Len(fs))
    IN  [k \in {feature_names[i] : i \in 1..n} |->
            fs[CHOOSE i \in 1..n : feature_names[i] = k]]

\* lines 150-160
SuccessResult(score) ==
    [ success               |-> TRUE,
      prediction_category   |-> Some(Val(prediction)),
      prediction_label      |-> Some(credit_categories[Val(prediction)]),
      credit_score_estimate |-> Some(score),
      confidence            |-> confidence,
      probabilities         |-> probabilities,
      feature_importance    |-> feature_importance,
      model_type            |-> model.type,
      features_used         |-> FeaturesUsed(features) ]

\* lines 165-172
FailureResult(e) ==
    [ success               |-> FALSE,
      error                 |-> e.msg,
      prediction_category   |-> None,
      prediction_label      |-> None,
      credit_score_estimate |-> None,
      confidence            |-> None ]

\* A handler that lets the classifier's faults through.
CatchesOwnOnly(e) == e.msg \in {"Invalid features provided", "Model not loaded"}

\* line 164: "except Exception" catches every exception raised in the body.
Catches(e) == TRUE

\* The optional steps without their try/except.
SwallowsNothing(e) == FALSE

\* lines 132 and 144: "except Exception" around an optional step.
Swallows(e) == TRUE

\* The test of line 108 left out.
NeverInvalid(fs) == FALSE

\* line 108: if not self.validate_features(features)
InvalidInput(fs) == ~validate_features(fs)

\* results.append skipped for a failure result.
AppendSuccessOnly(rs, result) == IF result.success THEN Append(rs, result) ELSE rs

\* line 196: results.append(result)
AppendResult(rs, result) == Append(rs, result)

-----------------------------------------------------------------------------
(* predict_credit_score: control *)

NoCall == /\ phase = "ready"
          /\ pc = "idle"
          /\ bpc = "idle"

\* The locals of a call of predict_credit_score(fs) at its first line.
EnterPredict(fs) ==
    /\ pc' = "validate"
    /\ features' = fs
    /\ prediction' = None
    /\ confidence' = None
    /\ proba' = None
    /\ probabilities' = None
    /\ feature_importance' = None
    /\ calls' = <<>>
    /\ diag' = {}

\* A top-level call other than predict_credit_score leaves no predict frame.
ClearFrame ==
    /\ pc' = "idle"
    /\ features' = None
    /\ prediction' = None
    /\ confidence' = None
    /\ proba' = None
    /\ probabilities' = None
    /\ feature_importance' = None
    /\ calls' = <<>>
    /\ diag' = {}

\* A call has been entered and has not completed: nothing was returned yet.
InProgress ==
    /\ op' = "none"
    /\ ret' = None
    /\ raised' = None

\* The call goes on to its next statement.
Continue(next) ==
    /\ pc' = next
    /\ UNCHANGED <<op, arg, ret, raised, batch>>

\* predict_credit_score returns result: to batch_predict's loop (lines 195-196),
\* or to the caller.
Return(result) ==
    /\ pc' = "idle"
    /\ IF bpc = "loop"
       THEN /\ results' = AppendResult(results, result)
            /\ UNCHANGED <<op, arg, ret, raised, bpc, features_list, it>>
       ELSE /\ op' = "predict_credit_score"
            /\ ret' = result
            /\ raised' = None
            /\ UNCHANGED <<arg, batch>>

\* An exception leaves predict_credit_score, and batch_predict if it is the caller.
Propagate(e) ==
    /\ pc' = "idle"
    /\ op' = IF bpc = "loop" THEN "batch_predict" ELSE "predict_credit_score"
    /\ ret' = None
    /\ raised' = Some(e)
    /\ bpc' = "idle"
    /\ features_list' = <<>>
    /\ it' = 0
    /\ results' = <<>>
    /\ UNCHANGED arg

\* e is raised inside the try of lines 107-162.
Raise(e) == IF Catches(e) THEN Return(FailureResult(e)) ELSE Propagate(e)

CallPredict ==
    /\ NoCall
    /\ \E fs \in SampleInputs :
          /\ arg' = fs
          /\ EnterPredict(fs)
    /\ InProgress
    /\ UNCHANGED <<service, batch>>

\* lines 108-112
StepValidate ==
    /\ pc = "validate"
    /\ IF InvalidInput(features)
       THEN Raise(Exc("ValueError", "Invalid features provided"))
       ELSE IF model = None
            THEN Raise(Exc("RuntimeError", "Model not loaded"))
            ELSE Continue("predict")
    /\ UNCHANGED <<service, features, prediction, confidence, proba, probabilities,
                   feature_importance, calls, diag>>

\* lines 115-122
StepPredict(Outcomes) ==
    /\ pc = "predict"
    /\ calls' = Append(calls, "predict")
    /\ \E o \in Outcomes :
          IF o.ok
          THEN /\ prediction' = Some(o.v)
               /\ confidence' = Some(DefaultConfidence)
               /\ Continue("proba")
          ELSE /\ Raise(o.exc)
               /\ UNCHANGED <<prediction, confidence>>
    /\ UNCHANGED <<service, features, proba, probabilities, feature_importance, diag>>

\* lines 124-133
StepProba(Outcomes) ==
    /\ pc = "proba"
    /\ IF hasattr(model, "predict_proba")
       THEN /\ calls' = Append(calls, "predict_proba")
            /\ \E o \in Outcomes :
                  LET made == IF o.ok THEN ProbabilitiesOf(o.v) ELSE o
                  IN  /\ proba' = IF o.ok THEN Some(o.v) ELSE proba
                      /\ IF made.ok
                         THEN /\ probabilities' = Some(made.v)
                              /\ confidence' = Some(SeqMax(o.v))
                              /\ Continue("importance")
                              /\ UNCHANGED diag
                         ELSE IF Swallows(made.exc)
                              THEN /\ diag' = diag \cup {"Could not get probabilities"}
                                   /\ Continue("importance")
                                   /\ UNCHANGED <<probabilities, confidence>>
                              ELSE /\ Raise(made.exc)
                                   /\ UNCHANGED <<probabilities, confidence, diag>>
       ELSE /\ Continue("importance")
            /\ UNCHANGED <<calls, proba, probabilities, confidence, diag>>
    /\ UNCHANGED <<service, features, prediction, feature_importance>>

\* lines 135-145
StepImportance(Outcomes) ==
    /\ pc = "importance"
    /\ IF hasattr(model, "feature_importances_")
       THEN /\ calls' = Append(calls, "feature_importances_")
            /\ \E o \in Outcomes :
                  LET made == IF o.ok THEN ImportanceOf(o.v) ELSE o
                  IN  IF made.ok
                      THEN /\ feature_importance' = Some(made.v)
                           /\ Continue("convert")
                           /\ UNCHANGED diag
                      ELSE IF Swallows(made.exc)
                           THEN /\ diag' = diag \cup {"Could not get feature importance"}
                                /\ Continue("convert")
                                /\ UNCHANGED feature_importance
                           ELSE /\ Raise(made.exc)
                                /\ UNCHANGED <<feature_importance, diag>>
       ELSE /\ Continue("convert")
            /\ UNCHANGED <<calls, feature_importance, diag>>
    /\ UNCHANGED <<service, features, prediction, confidence, proba, probabilities>>

\* lines 147-162
StepFinish ==
    /\ pc = "convert"
    /\ \E credit_score \in convert_category_to_score(Val(prediction), Val(confidence)) :
          IF ~credit_score.ok
          THEN Raise(credit_score.exc)
          ELSE IF Val(prediction) \notin DOMAIN credit_categories
               THEN Raise(Exc("KeyError", "prediction"))
               ELSE Return(SuccessResult(credit_score.v))
    /\ UNCHANGED <<service, features, prediction, confidence, proba, probabilities,
                   feature_importance, calls, diag>>

-----------------------------------------------------------------------------
(* Construction, load_model, and the other public methods *)

\* CreditMLService(), lines 22-40, on a filesystem d: the constructor
\* returns the object only when load_model() does not raise.
Construct(Disks) ==
    /\ phase = "new"
    /\ \E d \in Disks :
          LET r == load_model(d, None)
          IN  /\ disk' = d
              /\ model' = r.model
              /\ raised' = r.raised
              /\ phase' = IF r.raised = None THEN "ready" ELSE "failed"
    /\ feature_names' = FeatureNames
    /\ credit_categories' = CreditCategories
    /\ op' = "__init__"
    /\ UNCHANGED <<arg, ret, frame, batch>>

\* service.load_model() called again, on the filesystem as it is then.
LoadModel(Disks) ==
    /\ NoCall
    /\ \E d \in Disks :
          LET r == load_model(d, model)
          IN  /\ disk' = d
              /\ model' = r.model
              /\ raised' = r.raised
    /\ op' = "load_model"
    /\ arg' = None
    /\ ret' = None
    /\ ClearFrame
    /\ UNCHANGED <<phase, feature_names, credit_categories, batch>>

CallValidate ==
    /\ NoCall
    /\ \E fs \in SampleInputs :
          /\ arg' = fs
          /\ ret' = validate_features(fs)
    /\ op' = "validate_features"
    /\ raised' = None
    /\ ClearFrame
    /\ UNCHANGED <<service, batch>>

\* get_model_info, lines 199-219
get_model_info ==
    IF model = None THEN [error |-> "Model not loaded"]
    ELSE [ model_type        |-> model.type,
           feature_names     |-> feature_names,
           credit_categories |-> credit_categories,
           model_loaded      |-> TRUE,
           optional          |-> {a \in {"n_estimators", "max_depth", "random_state"} :
                                      hasattr(model, a)} ]

CallInfo ==
    /\ NoCall
    /\ op' = "get_model_info"
    /\ arg' = None
    /\ ret' = get_model_info
    /\ raised' = None
    /\ ClearFrame
    /\ UNCHANGED <<service, batch>>

\* The arguments convert_category_to_score is called with.
ScoreArgs(Confs) == [category : (-1)..MaxCategory, confidence : Confs]

CallConvert(Confs) ==
    /\ NoCall
    /\ \E a \in ScoreArgs(Confs) :
          /\ arg' = a
          /\ \E r \in convert_category_to_score(a.category, a.confidence) :
                /\ ret' = IF r.ok THEN Some(r.v) ELSE None
                /\ raised' = IF r.ok THEN None ELSE Some(r.exc)
    /\ op' = "convert_category_to_score"
    /\ ClearFrame
    /\ UNCHANGED <<service, batch>>

-----------------------------------------------------------------------------
(* batch_predict, lines 191-197 *)

BatchLists == UNION {[1..n -> BatchInputs] : n \in 0..MaxBatch}

\* line 193
CallBatch ==
    /\ NoCall
    /\ \E l \in BatchLists :
          /\ arg' = l
          /\ features_list' = l
    /\ it' = 0
    /\ results' = <<>>
    /\ bpc' = "loop"
    /\ ClearFrame
    /\ InProgress
    /\ UNCHANGED service

\* lines 194-195: the loop takes the next element and calls predict_credit_score
BatchIter ==
    /\ bpc = "loop"
    /\ pc = "idle"
    /\ it < Len(features_list)
    /\ it' = it + 1
    /\ EnterPredict(features_list[it + 1])
    /\ UNCHANGED <<op, arg, ret, raised, service, bpc, features_list, results>>

\* line 197
BatchReturn ==
    /\ bpc = "loop"
    /\ pc = "idle"
    /\ it >= Len(features_list)
    /\ op' = "batch_predict"
    /\ ret' = results
    /\ raised' = None
    /\ bpc' = "idle"
    /\ features_list' = <<>>
    /\ it' = 0
    /\ results' = <<>>
    /\ UNCHANGED <<arg, service, frame>>

-----------------------------------------------------------------------------
(* The service driven through single calls, with an arbitrary classifier *)

Init ==
    /\ phase = "new"
    /\ disk = None
    /\ model = None
    /\ feature_names = <<>>
    /\ credit_categories = <<>>
    /\ op = "none"
    /\ arg = None
    /\ ret = None
    /\ raised = None
    /\ IdleFrame
    /\ IdleBatch

Next ==
    \/ Construct(DiskStates)
    \/ LoadModel(DiskStates)
    \/ CallValidate
    \/ CallInfo
    \/ CallConvert({One})
    \/ CallPredict
    \/ StepValidate
    \/ StepPredict(PredictOutcomes)
    \/ StepProba(ProbaOutcomes)
    \/ StepImportance(ImportanceOutcomes)
    \/ StepFinish

Spec == Init /\ [][Next]_vars

-----------------------------------------------------------------------------
(* The service driven through every method, batches included *)

NextBatch ==
    \/ Construct(BatchDiskStates)
    \/ LoadModel(BatchDiskStates)
    \/ CallValidate
    \/ CallInfo
    \/ CallConvert({One})
    \/ CallPredict
    \/ CallBatch
    \/ BatchIter
    \/ BatchReturn
    \/ StepValidate
    \/ StepPredict(BatchPredictOutcomes)
    \/ StepProba(BatchProbaOutcomes)
    \/ StepImportance(BatchImportanceOutcomes)
    \/ StepFinish

SpecBatch == Init /\ [][NextBatch]_vars

-----------------------------------------------------------------------------
(* convert_category_to_score as a function of its arguments, on a constructed service *)

InitScore ==
    /\ phase = "ready"
    /\ disk = File(RandomForest)
    /\ model = RandomForest
    /\ feature_names = FeatureNames
    /\ credit_categories = CreditCategories
    /\ op = "__init__"
    /\ arg \in ScoreArgs((-MaxOffScale)..(One + MaxOffScale))
    /\ ret = None
    /\ raised = None
    /\ IdleFrame
    /\ IdleBatch

ConvertCall ==
    /\ op = "__init__"
    /\ op' = "convert_category_to_score"
    /\ \E r \in convert_category_to_score(arg.category, arg.confidence) :
          /\ ret' = IF r.ok THEN Some(r.v) ELSE None
          /\ raised' = IF r.ok THEN None ELSE Some(r.exc)
    /\ UNCHANGED <<arg, service, frame, batch>>

NextScore == ConvertCall

SpecScore == InitScore /\ [][NextScore]_vars

-----------------------------------------------------------------------------
(* validate_features as a function of its argument, on a constructed service *)

InitValidate ==
    /\ phase = "ready"
    /\ disk = File(RandomForest)
    /\ model = RandomForest
    /\ feature_names = FeatureNames
    /\ credit_categories = CreditCategories
    /\ op = "__init__"
    /\ arg \in AllVectors
    /\ ret = None
    /\ raised = None
    /\ IdleFrame
    /\ IdleBatch

ValidateCall ==
    /\ op = "__init__"
    /\ op' = "validate_features"
    /\ ret' = validate_features(arg)
    /\ UNCHANGED <<arg, raised, service, frame, batch>>

NextValidate == ValidateCall

SpecValidate == InitValidate /\ [][NextValidate]_vars

-----------------------------------------------------------------------------
(* Properties *)

\* The last completed call is a predict_credit_score call that returned.
PredictReturned == op = "predict_credit_score" /\ ret # None

SuccessKeys ==
    { "success", "prediction_category", "prediction_label", "credit_score_estimate",
      "confidence", "probabilities", "feature_importance", "model_type", "features_used" }

FailureKeys ==
    { "success", "error", "prediction_category", "prediction_label",
      "credit_score_estimate", "confidence" }

\* The str(e) of the exceptions the model raises.
ErrorStrings ==
    { "Invalid features provided", "Model not loaded", "predict", "predict_proba",
      "feature_importances_", "credit_categories", "list index out of range",
      "low >= high", "prediction" }

FullSuccess(r) ==
    /\ r.success
    /\ DOMAIN r = SuccessKeys
    /\ r.prediction_category # None
    /\ r.prediction_label # None
    /\ r.credit_score_estimate # None
    /\ r.confidence # None

FullFailure(r) ==
    /\ ~r.success
    /\ DOMAIN r = FailureKeys
    /\ r.error \in ErrorStrings
    /\ r.prediction_category = None
    /\ r.prediction_label = None
    /\ r.credit_score_estimate = None
    /\ r.confidence = None

\* C1: whenever predict_credit_score returns success=true, whatever the
\* classifier returned, credit_score_estimate is an integer of [300, 850].
C1_ScoreInRange ==
    (PredictReturned /\ ret.success) =>
        Val(ret.credit_score_estimate) \in 300..850

\* C1 witness: a success whose score was cut down to the ceiling (a negative
\* confidence makes the adjustment band wider than the scale).
C1_Witness ==
    /\ PredictReturned
    /\ ret.success
    /\ Val(ret.confidence) < 0
    /\ Val(ret.credit_score_estimate) = 850

\* C2: predict_credit_score never raises to its caller, and what it returns
\* is either a fully populated success object or a failure object with an
\* error string and every prediction field None.
C2_NeverRaises ==
    op = "predict_credit_score" =>
        /\ raised = None
        /\ ret # None
        /\ FullSuccess(ret) \/ FullFailure(ret)

\* C2 witness: a failure result returned after the classifier faulted.
C2_Witness ==
    /\ PredictReturned
    /\ ~ret.success
    /\ ret.error = "predict"
    /\ calls = <<"predict">>

\* C3: validate_features returns true exactly when the vector has 7 entries,
\* Outstanding_Debt >= 0, Credit_Mix is 0, 1 or 2, Credit_History_Age >= 0,
\* Annual_Income >= 0 and Num_of_Delayed_Payment >= 0; Monthly_Balance and
\* Payment_Behaviour never change the outcome.
C3_Validate ==
    op = "validate_features" =>
        /\ ret = ( /\ Len(arg) = 7
                   /\ Ge(arg[1], 0)
                   /\ \E m \in {0, 1, 2} : Eq(arg[2], m)
                   /\ Ge(arg[3], 0)
                   /\ Ge(arg[6], 0)
                   /\ Ge(arg[7], 0) )
        /\ Len(arg) = 7 =>
              \A a, b \in Vals :
                  validate_features([arg EXCEPT ![4] = a, ![5] = b]) = ret

\* C4: an input that fails validation gets a failure result with every
\* prediction field None, and the classifier's members are invoked in a call
\* only after that call's input passed validation.
C4_ValidationFirst ==
    /\ (calls # <<>> \/ pc \in {"predict", "proba", "importance", "convert"}) =>
          /\ validate_features(features)
          /\ model # None
    /\ (op = "predict_credit_score" /\ ~validate_features(arg)) =>
          /\ raised = None
          /\ ret # None
          /\ ~ret.success
          /\ ret.error = "Invalid features provided"
          /\ ret.prediction_category = None
          /\ ret.prediction_label = None
          /\ ret.credit_score_estimate = None
          /\ ret.confidence = None
          /\ calls = <<>>

\* C4 witness: predict_credit_score has returned for a vector of 5 entries.
C4_Witness ==
    /\ PredictReturned
    /\ Len(arg) = 5
    /\ ~ret.success

\* The result r at a position of a batch is a result for the input fs at
\* that position.
ResultFor(r, fs) ==
    /\ FullSuccess(r) \/ FullFailure(r)
    /\ r.success => /\ validate_features(fs)
                    /\ r.features_used = FeaturesUsed(fs)
                    /\ r.model_type = model.type
    /\ ~validate_features(fs) => /\ ~r.success
                                 /\ r.error = "Invalid features provided"

\* C5: batch_predict returns one result per input, in input order; a failing
\* item yields a failure result at its position and does not abort the batch,
\* and no later item changes a result already collected.
C5_Batch ==
    /\ [](op = "batch_predict" =>
            /\ raised = None
            /\ Len(ret) = Len(arg)
            /\ \A k \in 1..Len(arg) : ResultFor(ret[k], arg[k]))
    /\ [](bpc = "loop" =>
            /\ Len(results) <= it
            /\ it <= Len(features_list)
            /\ \A k \in 1..Len(results) : ResultFor(results[k], features_list[k]))
    /\ [][(bpc = "loop" /\ bpc' = "loop") =>
            /\ Len(results') >= Len(results)
            /\ \A k \in 1..Len(results) : results'[k] = results[k]
            /\ model' = model]_vars
    /\ [][(bpc = "loop" /\ op' = "batch_predict") => ret' = results]_vars

\* C5 witness: a batch of two whose first item failed and whose second
\* succeeded.
C5_Witness ==
    /\ op = "batch_predict"
    /\ raised = None
    /\ Len(arg) = 2
    /\ ~ret[1].success
    /\ ret[2].success

\* The consequent of C6: three entries, one per label, and confidence their
\* maximum.
ThreeProbabilities(r) ==
    /\ r.probabilities # None
    /\ DOMAIN Val(r.probabilities) = {"Good", "Poor", "Standard"}
    /\ \A l \in DOMAIN Val(r.probabilities) : Val(r.probabilities)[l] <= Val(r.confidence)
    /\ \E l \in DOMAIN Val(r.probabilities) : Val(r.probabilities)[l] = Val(r.confidence)

\* C6 as stated: whenever the loaded classifier has predict_proba, every
\* success result carries three probabilities and their maximum as confidence.
C6_Original ==
    (PredictReturned /\ ret.success /\ hasattr(model, "predict_proba")) =>
        ThreeProbabilities(ret)

\* C6 amended: whenever the loaded classifier has predict_proba and the
\* probability step of the call completed without a fault on a row of three
\* class probabilities, the success result carries three probabilities, one
\* per label, and their maximum as confidence.
C6_Amended ==
    ( /\ PredictReturned
      /\ ret.success
      /\ hasattr(model, "predict_proba")
      /\ "Could not get probabilities" \notin diag
      /\ Len(Val(proba)) = 3 ) =>
        ThreeProbabilities(ret)

\* C6 witness: a success whose probability step returned <<5, 90, 5>>.
C6_Witness ==
    /\ PredictReturned
    /\ ret.success
    /\ hasattr(model, "predict_proba")
    /\ "Could not get probabilities" \notin diag
    /\ proba = Some(<<5, 90, 5>>)
    /\ ret.confidence = Some(90)

C8_Original ==
    op = "__init__" =>
        /\ phase = "failed" =>
              /\ disk.kind = "missing" => Val(raised).type = "FileNotFoundError"
              /\ disk.kind = "corrupt" => Val(raised).type = "ModelLoadError"
        /\ phase = "ready" => model = disk.content

\* C8 amended: when the model path does not exist construction fails with
\* FileNotFoundError, and on any other load fault it fails with the
\* underlying exception itself, re-raised unchanged; in both cases no service
\* object is produced (no method ever runs on it) and self.model is None;
\* when the load succeeds the service holds the object joblib.load returned.
C8_Amended ==
    /\ phase = "failed" =>
          /\ op = "__init__"
          /\ model = None
          /\ IF disk.kind = "missing"
             THEN Val(raised).type = "FileNotFoundError"
             ELSE /\ disk.kind \in {"directory", "corrupt"}
                  /\ raised = Some(joblib_load(disk).exc)
    /\ (phase = "ready" /\ op = "__init__") =>
          /\ raised = None
          /\ disk.kind = "file"
          /\ model = disk.content

\* C8 witness: construction failed on a file joblib could not read.
C8_Witness ==
    /\ phase = "failed"
    /\ disk.kind = "corrupt"
    /\ raised = Some(Exc("UnpicklingError", "invalid load key"))

C10_Base(category) ==
    CASE category = 0 -> 750
      [] category = 1 -> 580
      [] category = 2 -> 650
      [] OTHER        -> 650

C10_Floor(conf) == ((100 - conf) * 50) \div 100

C10_Clamp(x) == IF x < 300 THEN 300 ELSE IF x > 850 THEN 850 ELSE x

C10_Holds ==
    LET base == C10_Base(arg.category)
        variance == C10_Floor(arg.confidence)
    IN  /\ raised = None
        /\ ret # None
        /\ \E adjustment \in (-variance)..variance :
              Val(ret) = C10_Clamp(base + adjustment)
        /\ arg.confidence = 100 => Val(ret) = base
        /\ arg.confidence \in 0..100 =>
              /\ Val(ret) - base <= variance
              /\ base - Val(ret) <= variance

\* C10 as stated: for every category and confidence the call returns
\* clamp(base + adjustment, 300, 850) with variance = floor((1 - confidence) * 50)
\* and adjustment an integer of [-variance, variance].
C10_Original == op = "convert_category_to_score" => C10_Holds

\* C10 amended: the same, for every confidence up to 1 (where int() of
\* line 185 is the floor and randint has a range to draw from).
C10_Amended ==
    (op = "convert_category_to_score" /\ arg.confidence <= 100) => C10_Holds

\* C10 witness: confidence 0 and category 1 returned 580 - 50.
C10_Witness ==
    /\ op = "convert_category_to_score"
    /\ arg = [category |-> 1, confidence |-> 0]
    /\ ret = Some(530)

====
